---- MODULE Spec2Model ----
(***************************************************************************)
(* vrc-osc-manager: the supervision core of src/main.rs.                   *)
(*                                                                         *)
(* VrChatActivity polls the process list and sends edge-triggered events   *)
(* on an mpsc channel of capacity 2; Launcher::wait selects over that      *)
(* channel and the tray's reload channel and starts, stops or replaces     *)
(* the "Plugins" subsystem; Toplevel owns the four top-level subsystems    *)
(* and drives the graceful shutdown.                                       *)
(*                                                                         *)
(* Every await point of the source is a step boundary: a task's step       *)
(* runs from one await to the next.  A future wrapped in                   *)
(* cancel_on_shutdown makes no further step once shutdown is requested.    *)
(***************************************************************************)
EXTENDS Integers, Sequences, FiniteSets, TLC

VARIABLES
    disabled,             \* Args::disable_activity_check
    actPc,                \* position of VrChatActivity::run
    vrchat_running,       \* local of VrChatActivity::check: last value emitted
    sample,               \* <<v>>, v the last value read from the process list; <<>> before the first
    emitted,              \* history: values handed to tx.send, in order
    rx,                   \* the activity channel (mpsc::channel(2)), oldest first
    received,             \* history: values Launcher::wait took from rx, in order
    reload_rx,            \* number of pending reload requests (mpsc::channel(4) of ())
    dropped,              \* the senders dropped so far, among "tx" and "reload_tx"
    lPc,                  \* position of Launcher::run / Launcher::wait
    config,               \* Launcher.config: the snapshot [gen, val]
    maybe_plugin_subsys,  \* 0 for None, else the index of the held group in groups
    tray_running,         \* the tray's status indicator
    raced,                \* history: which arm the first select with both sources ready took
    groups,               \* every "Plugins" subsystem started so far
    published,            \* number of messages sent on the broadcast channel
    task,                 \* state of the four top-level subsystems
    shutdown,             \* the Toplevel shutdown token
    rootResult            \* result of handle_shutdown_requests

vars == <<disabled, actPc, vrchat_running, sample, emitted, rx, received,
          reload_rx, dropped, lPc, config, maybe_plugin_subsys, tray_running,
          raced, groups, published, task, shutdown, rootResult>>

actVars  == <<actPc, vrchat_running, sample, emitted>>
lVars    == <<lPc, config, maybe_plugin_subsys, tray_running, raced, received>>

----------------------------------------------------------------------------
(* Bounds of the model *)

MaxEmits   == 3   \* activity events handed to the channel
MaxLongEmits == 5 \* the same, in the long runs of the monitor (SpecLong)
MaxReloads == 2   \* reload requests made by the tray
MaxMsgs    == 2   \* messages published on the broadcast channel
BroadcastCapacity == 1   \* broadcast::channel(64), scaled down so that a reader can lag

(* Program constants *)

ActivityCapacity == 2   \* mpsc::channel(2)
ReloadCapacity   == 4   \* mpsc::channel(4)

TopTasks == {"VrChatActivity", "Launcher", "OscSender", "OscReceiver"}
Members  == {"Plugins", "PluginWatch", "PluginPiShock"}
Children == {"PluginWatch", "PluginPiShock"}

----------------------------------------------------------------------------
(* Helpers *)

Exited(s) == s \in {"ok", "err"}

\* The shutdown token a member of group g observes: the group's own token
\* (cancelled by perform_partial_shutdown) is a child of the Toplevel token.
GroupCancelled(g) == groups[g].cancelled \/ shutdown

AllExited(g) == \A m \in Members : Exited(groups[g].st[m])

AnyFailed(g) == \E m \in Members : groups[g].st[m] = "err"

Live(g) == \E m \in Members : groups[g].st[m] \in {"spawned", "running", "waiting"}

\* The receiving half of the activity channel lives in the Launcher.
RxDropped == task["Launcher"] # "running"

\* The senders a top-level task owns: VrChatActivity holds tx; the tray, a
\* local of Launcher::wait, holds reload_tx.  They are dropped with the
\* task's future.
SendersOf(t) ==
    CASE t = "VrChatActivity" -> {"tx"}
      [] t = "Launcher"       -> {"reload_tx"}
      [] OTHER                -> {}

\* Mutant: the wrapper returns the cancellation as an error.
CancelledResult_Err == "err"

\* Err(CancelledByShutdown) => {} and then Ok(()): the subsystem's result.
CancelledResult == "ok"

\* A subsystem that returns an error: the runner records the error and, the
\* subsystem's own token not being cancelled, requests the global shutdown.
FailTask(t) ==
    /\ task' = [task EXCEPT ![t] = "err"]
    /\ shutdown' = TRUE
    /\ dropped' = dropped \cup SendersOf(t)

\* What osc-manager.toml holds when it is read for the n-th time (n = 0 is
\* the read of main): the user edits the file before every second reload,
\* so reloads of changed and of unchanged content both occur.
ContentOf(n) == (n + 1) \div 2

\* load_config().await: a new snapshot (a new Arc) of the file's content.
LoadedSnapshot(old) == [gen |-> old.gen + 1, val |-> ContentOf(old.gen + 1)]

\* Mutant: a failed load is replaced by a default configuration
\* (unwrap_or_default) before the error is returned.
FailedLoadSnapshot_Default(old) == [gen |-> old.gen + 1, val |-> 0]

\* load_config().await? returns the error before the assignment to
\* self.config takes place.
FailedLoadSnapshot(old) == old

\* Mutant: the closure captures the snapshot main() loaded, not self.config.
NewGroup_Stale(cfg) ==
    [cfg |-> [gen |-> 0, val |-> ContentOf(0)], cancelled |-> FALSE,
     born |-> published, stoppedAt |-> 0,
     sub |-> 0, next |-> 0, lagged |-> FALSE, obs |-> <<>>,
     st |-> [m \in Members |-> IF m = "Plugins" THEN "spawned" ELSE "none"]]

\* subsys.start("Plugins", ...) with Launcher.config cloned into the closure:
\* the task is spawned; run_plugins has not run yet.
\* born: history, the number of messages published before the start.
\* sub, next, lagged, obs: PiShock's broadcast receiver (where it subscribed,
\* its cursor, whether recv ever returned Lagged) and the messages it got.
NewGroup(cfg) ==
    [cfg |-> cfg, cancelled |-> FALSE, born |-> published, stoppedAt |-> 0,
     sub |-> 0, next |-> 0, lagged |-> FALSE, obs |-> <<>>,
     st |-> [m \in Members |-> IF m = "Plugins" THEN "spawned" ELSE "none"]]

\* perform_partial_shutdown begins by cancelling the group's token.
\* stoppedAt: history, the number of messages published before the stop.
CancelGroup(g) == [groups EXCEPT ![g].cancelled = TRUE, ![g].stoppedAt = published]

\* Mutant: the stop returns once the token is cancelled, without waiting.
StopAcknowledged_NoWait(g) == groups[g].cancelled

\* Mutant: an error of a plugin is logged and dropped, as for a detached task.
PluginErrorShutdown_Dropped(g) == shutdown

\* The runner of a nested subsystem that returned an error requests the
\* global shutdown, unless its group is being stopped.
PluginErrorShutdown(g) == ~groups[g].cancelled

\* perform_partial_shutdown(plugin_subsys).await is ready: the subsystem and
\* its nested subsystems have all finished.
StopAcknowledged(g) == AllExited(g)

\* Reload requests made so far: loaded, being loaded, or still queued.
Requested == config.gen + reload_rx + (IF lPc = "reload_load" THEN 1 ELSE 0)

----------------------------------------------------------------------------
(* Initial state: main() has loaded the configuration, created the channels
   and started the four top-level subsystems; no future has been polled. *)

Init ==
    /\ disabled \in BOOLEAN
    /\ actPc = "start"
    /\ vrchat_running = FALSE
    /\ sample = <<>>
    /\ emitted = <<>>
    /\ rx = <<>>
    /\ received = <<>>
    /\ reload_rx = 0
    /\ dropped = {}
    /\ lPc = "start"
    /\ config = [gen |-> 0, val |-> ContentOf(0)]
    /\ maybe_plugin_subsys = 0
    /\ tray_running = FALSE
    /\ raced = "none"
    /\ groups = <<>>
    /\ published = 0
    /\ task = [t \in TopTasks |-> "running"]
    /\ shutdown = FALSE
    /\ rootResult = "pending"

----------------------------------------------------------------------------
(* VrChatActivity *)

\* Mutant: level-triggered, an event for every sample that finds VRChat.
Changed_Level(running, last) == running

\* if running != vrchat_running
Changed(running, last) == running # last

\* Mutant: the disabled branch falls through into the polling loop.
ActivityGated_FallThrough == TRUE

\* if self.disabled { ... return Ok(()) }: check() runs only when gating is on.
ActivityGated == ~disabled

\* VrChatActivity::run, disabled: tx.send(true).await? outside any
\* cancel_on_shutdown, then park on on_shutdown_requested.
ActivityRunDisabled ==
    /\ disabled
    /\ actPc = "start"
    /\ "tx" \notin dropped
    /\ task["VrChatActivity"] = "running"
    /\ IF RxDropped
         THEN /\ actPc' = "failed"
              /\ FailTask("VrChatActivity")
              /\ UNCHANGED <<emitted, rx>>
         ELSE /\ Len(rx) < ActivityCapacity
              /\ rx' = Append(rx, TRUE)
              /\ emitted' = Append(emitted, TRUE)
              /\ actPc' = "parked"
              /\ UNCHANGED <<task, shutdown, dropped>>
    /\ UNCHANGED <<disabled, vrchat_running, sample, received, reload_rx,
                   lPc, config, maybe_plugin_subsys, tray_running, raced,
                   groups, published, rootResult>>

\* subsys.on_shutdown_requested().await; return Ok(())
ActivityParkedExit ==
    /\ disabled
    /\ actPc = "parked"
    /\ task["VrChatActivity"] = "running"
    /\ shutdown
    /\ actPc' = "done"
    /\ task' = [task EXCEPT !["VrChatActivity"] = "ok"]
    /\ dropped' = dropped \cup SendersOf("VrChatActivity")
    /\ UNCHANGED <<disabled, vrchat_running, sample, emitted, rx, received,
                   reload_rx, lPc, config, maybe_plugin_subsys,
                   tray_running, raced, groups, published, shutdown, rootResult>>

\* Mutant: try_send, which returns at once and drops the event when full.
SendPc_TrySend(full) == "sleep"

\* self.tx.send(vrchat_running).await: with the channel full the future is
\* pending and holds the value; otherwise the loop goes on to its sleep.
SendPc(full) == IF full THEN "send" ELSE "sleep"

\* The value held by a pending tx.send.
Pending == IF actPc = "send" THEN <<vrchat_running>> ELSE <<>>

\* One iteration of the loop of VrChatActivity::check, up to its next await:
\* sample the process list, compare with the last emitted value, send.
ActivityCheckWithin(running, max) ==
    /\ ActivityGated
    /\ "tx" \notin dropped
    /\ actPc \in {"start", "sleep"}
    /\ task["VrChatActivity"] = "running"
    /\ ~shutdown
    /\ Changed(running, vrchat_running) => Len(emitted) < max
    /\ sample' = <<running>>
    /\ IF Changed(running, vrchat_running)
         THEN /\ vrchat_running' = running
              /\ IF RxDropped
                   THEN /\ actPc' = "failed"
                        /\ FailTask("VrChatActivity")
                        /\ UNCHANGED <<emitted, rx>>
                   ELSE /\ emitted' = Append(emitted, running)
                        /\ rx' = IF Len(rx) < ActivityCapacity
                                   THEN Append(rx, running) ELSE rx
                        /\ actPc' = SendPc(Len(rx) >= ActivityCapacity)
                        /\ UNCHANGED <<task, shutdown, dropped>>
         ELSE /\ actPc' = "sleep"
              /\ UNCHANGED <<vrchat_running, emitted, rx, task, shutdown, dropped>>
    /\ UNCHANGED <<disabled, received, reload_rx, lPc, config,
                   maybe_plugin_subsys, tray_running, raced, groups, published,
                   rootResult>>

ActivityCheck(running) == ActivityCheckWithin(running, MaxEmits)

\* self.tx.send(vrchat_running).await completes once the channel has room.
ActivitySendComplete ==
    /\ actPc = "send"
    /\ "tx" \notin dropped
    /\ task["VrChatActivity"] = "running"
    /\ ~shutdown
    /\ Len(rx) < ActivityCapacity
    /\ rx' = Append(rx, vrchat_running)
    /\ actPc' = "sleep"
    /\ UNCHANGED <<disabled, dropped, vrchat_running, sample, emitted, received,
                   reload_rx, lPc, config, maybe_plugin_subsys,
                   tray_running, raced, groups, published, task, shutdown,
                   rootResult>>

\* self.check().cancel_on_shutdown(&subsys) => Err(CancelledByShutdown) => Ok(())
ActivityCancelled ==
    /\ ~disabled
    /\ actPc \in {"start", "sleep", "send"}
    /\ task["VrChatActivity"] = "running"
    /\ shutdown
    /\ actPc' = "done"
    /\ task' = [task EXCEPT !["VrChatActivity"] = CancelledResult]
    /\ dropped' = dropped \cup SendersOf("VrChatActivity")
    /\ UNCHANGED <<disabled, vrchat_running, sample, emitted, rx, received,
                   reload_rx, lPc, config, maybe_plugin_subsys,
                   tray_running, raced, groups, published, shutdown, rootResult>>

\* A sender of the activity channel that is not edge-triggered: the channel
\* carries any bool, whatever was sent before.
AnySend(v) ==
    /\ "tx" \notin dropped
    /\ ~RxDropped
    /\ ~shutdown
    /\ Len(rx) < ActivityCapacity
    /\ Len(received) + Len(rx) < MaxEmits
    /\ rx' = Append(rx, v)
    /\ UNCHANGED <<disabled, dropped, actVars, received, reload_rx, lPc, config,
                   maybe_plugin_subsys, tray_running, raced, groups, published,
                   task, shutdown, rootResult>>

----------------------------------------------------------------------------
(* The tray *)

\* The tray's menu sends () on reload_tx; the tray lives inside Launcher::wait.
ReloadRequest ==
    /\ lPc \in {"select", "reload_load", "reload_stop", "act_stop"}
    /\ task["Launcher"] = "running"
    /\ ~shutdown
    /\ "reload_tx" \notin dropped
    /\ reload_rx < ReloadCapacity
    /\ Requested < MaxReloads
    /\ reload_rx' = reload_rx + 1
    /\ UNCHANGED <<disabled, dropped, actVars, rx, received, lPc, config,
                   maybe_plugin_subsys, tray_running, raced, groups, published,
                   task, shutdown, rootResult>>

\* Launcher::wait is at one of pcs and its cancel_on_shutdown has not fired.
LauncherAt(pcs) ==
    /\ lPc \in pcs
    /\ task["Launcher"] = "running"
    /\ ~shutdown

\* A sender is dropped while the Launcher is waiting at its select:
\* the tray lets go of reload_tx, or the monitor's future ends while a poll
\* of the Launcher that began before the shutdown request is in progress.
SenderDropped(s) ==
    /\ s \notin dropped
    /\ LauncherAt({"select"})
    /\ dropped' = dropped \cup {s}
    /\ UNCHANGED <<disabled, actVars, rx, received, reload_rx, lPc, config,
                   maybe_plugin_subsys, tray_running, raced, groups, published,
                   task, shutdown, rootResult>>

----------------------------------------------------------------------------
(* Launcher *)

\* self.rx.recv() / reload_rx.recv() return None: every sender is dropped
\* and the channel is drained.  The pattern Some(..) then fails and select!
\* disables the branch.
RxClosed     == rx = <<>> /\ "tx" \in dropped
ReloadClosed == reload_rx = 0 /\ "reload_tx" \in dropped

\* Mutant: the loop breaks as soon as one recv returns None.
LoopEnds_Either == RxClosed \/ ReloadClosed

\* else => break: taken when every branch of the select! is disabled.
LoopEnds == RxClosed /\ ReloadClosed

\* Mutant: the wrapper returns Ok without requesting the shutdown.
RequestShutdown_Skipped == shutdown

\* Ok(Ok(())) => subsys.request_shutdown()
RequestShutdown == TRUE

\* Mutant: the group is replaced only when the content changed.
RestartOnReload_IfChanged(held, old, new) == held # 0 /\ old.val # new.val

\* Mutant: a reload replaces the snapshot and leaves the group alone.
RestartOnReload_Never(held, old, new) == FALSE

\* if let Some(plugin_subsys) = maybe_plugin_subsys, in the reload arm: the
\* group is replaced whenever one is held, whatever the snapshots hold.
RestartOnReload(held, old, new) == held # 0

\* Mutant: the stop arm repeats set_running(true).
StopIndicator_Running == TRUE

\* Mutant: the start arm passes false to set_running.
StartIndicator_Stopped == FALSE

\* tray.set_running(true) / tray.set_running(false)
StartIndicator == TRUE
StopIndicator == FALSE

\* wait returns Err, run returns Err: the subsystem fails.
LauncherFail ==
    /\ lPc' = "failed"
    /\ FailTask("Launcher")

\* Launcher::wait up to the first select: the reload channel and the tray.
LauncherStart(ok) ==
    /\ LauncherAt({"start"})
    /\ IF ok
         THEN lPc' = "select" /\ UNCHANGED <<task, shutdown, dropped>>
         ELSE LauncherFail
    /\ UNCHANGED <<disabled, actVars, rx, received, reload_rx, config,
                   maybe_plugin_subsys, tray_running, raced, groups, published,
                   rootResult>>

\* select!: Some(()) = reload_rx.recv(), up to load_config().await
LauncherRecvReload ==
    /\ LauncherAt({"select"})
    /\ reload_rx > 0
    /\ reload_rx' = reload_rx - 1
    /\ lPc' = "reload_load"
    /\ raced' = IF raced = "none" /\ rx # <<>> THEN "reload_first" ELSE raced
    /\ UNCHANGED <<disabled, dropped, actVars, rx, received, config,
                   maybe_plugin_subsys, tray_running, groups, published, task,
                   shutdown, rootResult>>

\* self.config = Arc::new(load_config().await?); then, with a group held,
\* perform_partial_shutdown is entered.
LauncherLoadConfig(ok) ==
    /\ LauncherAt({"reload_load"})
    /\ IF ok
         THEN /\ config' = LoadedSnapshot(config)
              /\ IF RestartOnReload(maybe_plugin_subsys, config, config')
                   THEN /\ groups' = CancelGroup(maybe_plugin_subsys)
                        /\ lPc' = "reload_stop"
                   ELSE /\ groups' = groups
                        /\ lPc' = "select"
              /\ UNCHANGED <<task, shutdown, dropped>>
         ELSE /\ LauncherFail
              /\ config' = FailedLoadSnapshot(config)
              /\ UNCHANGED groups
    /\ UNCHANGED <<disabled, actVars, rx, received, reload_rx,
                   maybe_plugin_subsys, tray_running, raced, published,
                   rootResult>>

\* perform_partial_shutdown(plugin_subsys).await? returned in the reload
\* arm; a new "Plugins" subsystem is started with the reloaded snapshot.
LauncherReloadRestart ==
    /\ LauncherAt({"reload_stop"})
    /\ StopAcknowledged(maybe_plugin_subsys)
    /\ IF AnyFailed(maybe_plugin_subsys)
         THEN /\ LauncherFail
              /\ UNCHANGED <<groups, maybe_plugin_subsys>>
         ELSE /\ groups' = Append(groups, NewGroup(config))
              /\ maybe_plugin_subsys' = Len(groups) + 1
              /\ lPc' = "select"
              /\ UNCHANGED <<task, shutdown, dropped>>
    /\ UNCHANGED <<disabled, actVars, rx, received, reload_rx, config,
                   tray_running, raced, published, rootResult>>

\* Mutant: the start arm lacks the is_none test.
StartsGroup_Always(running, held) == running

\* if vrchat_running { if maybe_plugin_subsys.is_none() { ... } }
StartsGroup(running, held) == running /\ held = 0

\* select!: Some(vrchat_running) = self.rx.recv(); ok is the outcome of
\* tray.set_running.
LauncherRecvActivity(ok) ==
    /\ LauncherAt({"select"})
    /\ rx # <<>>
    /\ rx' = Tail(rx)
    /\ received' = Append(received, Head(rx))
    /\ raced' = IF raced = "none" /\ reload_rx > 0 THEN "activity_first" ELSE raced
    /\ CASE StartsGroup(Head(rx), maybe_plugin_subsys) ->
              IF ok
                THEN /\ tray_running' = StartIndicator
                     /\ groups' = Append(groups, NewGroup(config))
                     /\ maybe_plugin_subsys' = Len(groups) + 1
                     /\ UNCHANGED <<lPc, task, shutdown, dropped>>
                ELSE /\ LauncherFail
                     /\ UNCHANGED <<tray_running, groups, maybe_plugin_subsys>>
         [] ~Head(rx) /\ maybe_plugin_subsys # 0 ->
              IF ok
                THEN /\ tray_running' = StopIndicator
                     /\ groups' = CancelGroup(maybe_plugin_subsys)
                     /\ lPc' = "act_stop"
                     /\ UNCHANGED <<maybe_plugin_subsys, task, shutdown, dropped>>
                ELSE /\ LauncherFail
                     /\ UNCHANGED <<tray_running, groups, maybe_plugin_subsys>>
         [] OTHER ->
              /\ ok
              /\ UNCHANGED <<lPc, tray_running, groups, maybe_plugin_subsys,
                             task, shutdown, dropped>>
    /\ UNCHANGED <<disabled, actVars, reload_rx, config, published,
                   rootResult>>

\* perform_partial_shutdown(plugin_subsys).await? returned in the activity
\* arm; maybe_plugin_subsys = None.
LauncherStopDone ==
    /\ LauncherAt({"act_stop"})
    /\ StopAcknowledged(maybe_plugin_subsys)
    /\ IF AnyFailed(maybe_plugin_subsys)
         THEN /\ LauncherFail
              /\ UNCHANGED maybe_plugin_subsys
         ELSE /\ maybe_plugin_subsys' = 0
              /\ lPc' = "select"
              /\ UNCHANGED <<task, shutdown, dropped>>
    /\ UNCHANGED <<disabled, actVars, rx, received, reload_rx, config,
                   tray_running, raced, groups, published, rootResult>>

\* else => break; wait returns Ok(()), and Launcher::run takes the arm
\* Ok(Ok(())) => subsys.request_shutdown() and returns Ok(()).
LauncherBreak ==
    /\ LauncherAt({"select"})
    /\ LoopEnds
    /\ lPc' = "done"
    /\ task' = [task EXCEPT !["Launcher"] = "ok"]
    /\ shutdown' = RequestShutdown
    /\ dropped' = dropped \cup SendersOf("Launcher")
    /\ UNCHANGED <<disabled, actVars, rx, received, reload_rx, config,
                   maybe_plugin_subsys, tray_running, raced, groups, published,
                   rootResult>>

\* self.wait(&subsys).cancel_on_shutdown(&subsys) => Err(CancelledByShutdown)
LauncherCancelled ==
    /\ lPc \in {"start", "select", "reload_load", "reload_stop", "act_stop"}
    /\ task["Launcher"] = "running"
    /\ shutdown
    /\ lPc' = "cancelled"
    /\ task' = [task EXCEPT !["Launcher"] = CancelledResult]
    /\ dropped' = dropped \cup SendersOf("Launcher")
    /\ UNCHANGED <<disabled, actVars, rx, received, reload_rx, config,
                   maybe_plugin_subsys, tray_running, raced, groups, published,
                   shutdown, rootResult>>

----------------------------------------------------------------------------
(* A "Plugins" subsystem and its nested plugin subsystems *)

\* Mutant: every group reads from where the first receiver was made.
SubscribeAt_FirstReceiver == groups[1].sub

\* receiver_tx.subscribe(): a new receiver sees the messages sent from now on.
SubscribeAt == published

\* run_plugins up to on_shutdown_requested().await: both plugins are
\* started and PiShock gets receiver_tx.subscribe().
RunPluginsStart(g) ==
    /\ groups[g].st["Plugins"] = "spawned"
    /\ groups' = [groups EXCEPT
                    ![g].st = [m \in Members |->
                                 IF m = "Plugins" THEN "waiting" ELSE "running"],
                    ![g].sub = SubscribeAt,
                    ![g].next = SubscribeAt]
    /\ UNCHANGED <<disabled, dropped, actVars, rx, reload_rx, lVars, published,
                   task, shutdown, rootResult>>

\* subsys.on_shutdown_requested().await; Ok(())
RunPluginsExit(g) ==
    /\ groups[g].st["Plugins"] = "waiting"
    /\ GroupCancelled(g)
    /\ groups' = [groups EXCEPT ![g].st["Plugins"] = "ok"]
    /\ UNCHANGED <<disabled, dropped, actVars, rx, reload_rx, lVars, published,
                   task, shutdown, rootResult>>

\* A plugin's run returns: Ok once its shutdown is requested, or an error
\* while the process is not shutting down.  An error of a group that is not
\* being stopped requests the global shutdown; an error during
\* perform_partial_shutdown is returned to the Launcher instead.
PluginExit(g, p, ok) ==
    /\ groups[g].st[p] = "running"
    /\ IF ok
         THEN /\ GroupCancelled(g)
              /\ groups' = [groups EXCEPT ![g].st[p] = "ok"]
              /\ UNCHANGED shutdown
         ELSE /\ ~shutdown
              /\ groups' = [groups EXCEPT ![g].st[p] = "err"]
              /\ shutdown' = PluginErrorShutdown(g)
    /\ UNCHANGED <<disabled, dropped, actVars, rx, reload_rx, lVars, published,
                   task, rootResult>>

\* PiShock's receiver_rx.recv(): the next message, or Lagged when the
\* reader fell behind the buffer, which moves it to the oldest one kept.
PiShockRecv(g) ==
    /\ groups[g].st["PluginPiShock"] = "running"
    /\ groups[g].next < published
    /\ IF published - groups[g].next > BroadcastCapacity
         THEN groups' = [groups EXCEPT ![g].next = published - BroadcastCapacity,
                                       ![g].lagged = TRUE]
         ELSE groups' = [groups EXCEPT ![g].next = @ + 1,
                                       ![g].obs = Append(@, groups[g].next + 1)]
    /\ UNCHANGED <<disabled, dropped, actVars, rx, reload_rx, lVars, published,
                   task, shutdown, rootResult>>

----------------------------------------------------------------------------
(* The transport subsystems *)

\* osc::Receiver sends an inbound message on receiver_tx.
Publish ==
    /\ task["OscReceiver"] = "running"
    /\ ~shutdown
    /\ published < MaxMsgs
    /\ published' = published + 1
    /\ UNCHANGED <<disabled, dropped, actVars, rx, reload_rx, lVars, groups,
                   task, shutdown, rootResult>>

\* osc::Sender::run / osc::Receiver::run return: Ok once shutdown is
\* requested, or an error while the process is not shutting down.
OscExit(t, ok) ==
    /\ t \in {"OscSender", "OscReceiver"}
    /\ task[t] = "running"
    /\ IF ok
         THEN /\ shutdown
              /\ task' = [task EXCEPT ![t] = "ok"]
              /\ UNCHANGED <<shutdown, dropped>>
         ELSE ~shutdown /\ FailTask(t)
    /\ UNCHANGED <<disabled, actVars, rx, reload_rx, lVars, groups,
                   published, rootResult>>

----------------------------------------------------------------------------
(* Toplevel *)

\* catch_signals(): SIGINT / SIGTERM / Ctrl-C requests the shutdown.
Signal ==
    /\ ~shutdown
    /\ shutdown' = TRUE
    /\ UNCHANGED <<disabled, dropped, actVars, rx, reload_rx, lVars, groups,
                   published, task, rootResult>>

TreeExited ==
    /\ \A t \in TopTasks : Exited(task[t])
    /\ \A g \in DOMAIN groups : AllExited(g)

\* Mutant: the result of handle_shutdown_requests is discarded.
TreeFailed_Discarded == FALSE

TreeFailed ==
    \/ \E t \in TopTasks : task[t] = "err"
    \/ \E g \in DOMAIN groups : AnyFailed(g)

\* handle_shutdown_requests: every subsystem finished within the grace
\* period; the result is Err(SubsystemsFailed) if one of them failed.
RootFinish ==
    /\ shutdown
    /\ rootResult = "pending"
    /\ TreeExited
    /\ rootResult' = IF TreeFailed THEN "failed" ELSE "ok"
    /\ UNCHANGED <<disabled, dropped, actVars, rx, reload_rx, lVars, groups,
                   published, task, shutdown>>

Abort(s) == IF s \in {"spawned", "running", "waiting"} THEN "aborted" ELSE s

\* Mutant: the root waits for the subsystems without a deadline.
RootTimeout_NoDeadline == FALSE

\* handle_shutdown_requests(Duration::from_millis(1000)): the grace period
\* ran out; the remaining subsystems are aborted, Err(ShutdownTimeout).
RootTimeout ==
    /\ shutdown
    /\ rootResult = "pending"
    /\ ~TreeExited
    /\ rootResult' = "timeout"
    /\ task' = [t \in TopTasks |-> Abort(task[t])]
    /\ dropped' = dropped \cup UNION {SendersOf(t) : t \in {u \in TopTasks : task[u] = "running"}}
    /\ groups' = [g \in DOMAIN groups |->
                    [groups[g] EXCEPT !.st = [m \in Members |-> Abort(groups[g].st[m])]]]
    /\ UNCHANGED <<disabled, actVars, rx, reload_rx, lVars, published,
                   shutdown>>

----------------------------------------------------------------------------

Next ==
    \/ ActivityRunDisabled
    \/ ActivityParkedExit
    \/ \E running \in BOOLEAN : ActivityCheck(running)
    \/ ActivitySendComplete
    \/ ActivityCancelled
    \/ ReloadRequest
    \/ \E ok \in BOOLEAN : LauncherStart(ok)
    \/ LauncherRecvReload
    \/ \E ok \in BOOLEAN : LauncherLoadConfig(ok)
    \/ LauncherReloadRestart
    \/ \E ok \in BOOLEAN : LauncherRecvActivity(ok)
    \/ LauncherStopDone
    \/ LauncherCancelled
    \/ \E g \in DOMAIN groups : RunPluginsStart(g)
    \/ \E g \in DOMAIN groups : RunPluginsExit(g)
    \/ \E g \in DOMAIN groups, p \in Children, ok \in BOOLEAN : PluginExit(g, p, ok)
    \/ \E t \in TopTasks, ok \in BOOLEAN : OscExit(t, ok)
    \/ Signal
    \/ RootFinish
    \/ RootTimeout

Spec == Init /\ [][Next]_vars

\* main awaits handle_shutdown_requests, so the runtime keeps polling it:
\* once the shutdown is requested it returns when every subsystem has
\* finished or when its 1000 ms timer fires.  Nothing is assumed of the
\* other tasks.
SpecFair == Spec /\ WF_vars(RootFinish) /\ WF_vars(RootTimeout)

\* The same program observed over longer runs of the monitor: enough events
\* to fill the activity channel while the Launcher is inside a handler.
NextLong ==
    \/ ActivityRunDisabled
    \/ ActivityParkedExit
    \/ \E running \in BOOLEAN : ActivityCheckWithin(running, MaxLongEmits)
    \/ ActivitySendComplete
    \/ ActivityCancelled
    \/ ReloadRequest
    \/ \E ok \in BOOLEAN : LauncherStart(ok)
    \/ LauncherRecvReload
    \/ \E ok \in BOOLEAN : LauncherLoadConfig(ok)
    \/ LauncherReloadRestart
    \/ \E ok \in BOOLEAN : LauncherRecvActivity(ok)
    \/ LauncherStopDone
    \/ LauncherCancelled
    \/ \E g \in DOMAIN groups : RunPluginsStart(g)
    \/ \E g \in DOMAIN groups : RunPluginsExit(g)
    \/ \E g \in DOMAIN groups, p \in Children, ok \in BOOLEAN : PluginExit(g, p, ok)
    \/ \E t \in TopTasks, ok \in BOOLEAN : OscExit(t, ok)
    \/ Signal
    \/ RootFinish
    \/ RootTimeout

SpecLong == Init /\ [][NextLong]_vars

\* The program with the producers of the Launcher's two channels finishing
\* while it is inside its select loop.
NextWait ==
    \/ ActivityRunDisabled
    \/ ActivityParkedExit
    \/ \E running \in BOOLEAN : ActivityCheck(running)
    \/ ActivitySendComplete
    \/ ActivityCancelled
    \/ ReloadRequest
    \/ \E ok \in BOOLEAN : LauncherStart(ok)
    \/ LauncherRecvReload
    \/ \E ok \in BOOLEAN : LauncherLoadConfig(ok)
    \/ LauncherReloadRestart
    \/ \E ok \in BOOLEAN : LauncherRecvActivity(ok)
    \/ LauncherStopDone
    \/ LauncherCancelled
    \/ \E g \in DOMAIN groups : RunPluginsStart(g)
    \/ \E g \in DOMAIN groups : RunPluginsExit(g)
    \/ \E g \in DOMAIN groups, p \in Children, ok \in BOOLEAN : PluginExit(g, p, ok)
    \/ \E t \in TopTasks, ok \in BOOLEAN : OscExit(t, ok)
    \/ Signal
    \/ RootFinish
    \/ RootTimeout
    \/ \E s \in {"tx", "reload_tx"} : SenderDropped(s)
    \/ LauncherBreak

SpecWait == Init /\ [][NextWait]_vars

\* The program with the activity channel fed by an arbitrary sender in
\* place of the monitor's loop: every row of the Launcher's activity arm
\* is exercised, also the two that the edge-triggered monitor never
\* produces.
NextRows ==
    \/ ActivityCancelled
    \/ ReloadRequest
    \/ \E ok \in BOOLEAN : LauncherStart(ok)
    \/ LauncherRecvReload
    \/ \E ok \in BOOLEAN : LauncherLoadConfig(ok)
    \/ LauncherReloadRestart
    \/ \E ok \in BOOLEAN : LauncherRecvActivity(ok)
    \/ LauncherStopDone
    \/ LauncherCancelled
    \/ \E g \in DOMAIN groups : RunPluginsStart(g)
    \/ \E g \in DOMAIN groups : RunPluginsExit(g)
    \/ \E g \in DOMAIN groups, p \in Children, ok \in BOOLEAN : PluginExit(g, p, ok)
    \/ \E t \in TopTasks, ok \in BOOLEAN : OscExit(t, ok)
    \/ Signal
    \/ RootFinish
    \/ RootTimeout
    \/ \E v \in BOOLEAN : AnySend(v)

SpecRows == Init /\ [][NextRows]_vars

\* The message bus in use while groups start, stop and restart; no task
\* fails and no shutdown is requested.
NextBus ==
    \/ Publish
    \/ \E g \in DOMAIN groups : PiShockRecv(g)
    \/ ActivityRunDisabled
    \/ \E running \in BOOLEAN : ActivityCheck(running)
    \/ ActivitySendComplete
    \/ ReloadRequest
    \/ LauncherStart(TRUE)
    \/ LauncherRecvReload
    \/ LauncherLoadConfig(TRUE)
    \/ LauncherReloadRestart
    \/ LauncherRecvActivity(TRUE)
    \/ LauncherStopDone
    \/ \E g \in DOMAIN groups : RunPluginsStart(g)
    \/ \E g \in DOMAIN groups : RunPluginsExit(g)
    \/ \E g \in DOMAIN groups, p \in Children : PluginExit(g, p, TRUE)

SpecBus == Init /\ [][NextBus]_vars

TypeOK ==
    /\ disabled \in BOOLEAN
    /\ actPc \in {"start", "sleep", "send", "parked", "done", "failed"}
    /\ vrchat_running \in BOOLEAN
    /\ sample \in {<<>>, <<TRUE>>, <<FALSE>>}
    /\ Len(emitted) <= MaxLongEmits
    /\ Len(rx) <= ActivityCapacity
    /\ reload_rx \in 0..ReloadCapacity
    /\ dropped \subseteq {"tx", "reload_tx"}
    /\ lPc \in {"start", "select", "reload_load", "reload_stop", "act_stop",
                "done", "cancelled", "failed"}
    /\ maybe_plugin_subsys \in 0..Len(groups)
    /\ rootResult \in {"pending", "ok", "failed", "timeout"}

----------------------------------------------------------------------------
(* Properties *)

LastGroup == Len(groups)

\* C1: at most one plugin group is live at any instant, and only the group
\* started last can be live: when a new "Plugins" subsystem is started,
\* every member of every earlier group has exited.
C1_AtMostOneLiveGroup ==
    \A g, h \in DOMAIN groups : Live(g) /\ Live(h) => g = h /\ g = LastGroup

\* A second group runs after the first one was stopped.
C1_Witness ==
    /\ LastGroup >= 2
    /\ groups[2].st["PluginWatch"] = "running"
    /\ groups[1].st["PluginWatch"] = "ok"

\* C2: a step of VrChatActivity::check hands an event to the channel if and
\* only if the sample differs from the last emitted value (FALSE at first),
\* the event is the sample, and an identical sample sends nothing; so the
\* emitted values alternate, starting with TRUE.
C2_EdgeTriggered ==
    /\ [](~disabled => \A i \in DOMAIN emitted : emitted[i] = (i % 2 = 1))
    /\ [][(~disabled /\ (sample' # sample \/ emitted' # emitted)) =>
            /\ (emitted' # emitted) <=> (sample'[1] # vrchat_running)
            /\ (emitted' # emitted) =>
                  /\ emitted' = Append(emitted, sample'[1])
                  /\ vrchat_running' = sample'[1]
            /\ (emitted' = emitted) =>
                  /\ vrchat_running' = vrchat_running
                  /\ rx' = rx]_vars

\* Two events were emitted and the monitor is back in its sleep.
C2_Witness ==
    /\ ~disabled
    /\ emitted = <<TRUE, FALSE>>
    /\ sample = <<FALSE>>
    /\ actPc = "sleep"

\* C3: a reload handled while a group is held goes from the load into the
\* stop of that group, whatever the reloaded content, and when the stop has
\* returned a new group is started from the reloaded snapshot and becomes
\* the held one.
C3_ReloadRestarts ==
    [][/\ (lPc = "reload_load" /\ lPc' \in {"select", "reload_stop"}
              /\ maybe_plugin_subsys # 0) =>
            /\ lPc' = "reload_stop"
            /\ groups'[maybe_plugin_subsys].cancelled
       /\ (lPc = "reload_stop" /\ lPc' = "select") =>
            /\ AllExited(maybe_plugin_subsys)
            /\ Len(groups') = Len(groups) + 1
            /\ maybe_plugin_subsys' = Len(groups')
            /\ groups'[maybe_plugin_subsys'].cfg = config'
            /\ groups'[maybe_plugin_subsys'].st["Plugins"] = "spawned"]_vars

\* A group was replaced by a reload that read unchanged content.
C3_Witness ==
    /\ lPc = "select"
    /\ maybe_plugin_subsys >= 2
    /\ groups[maybe_plugin_subsys].cfg.val = groups[maybe_plugin_subsys - 1].cfg.val
    /\ groups[maybe_plugin_subsys].cfg.gen = groups[maybe_plugin_subsys - 1].cfg.gen + 1

\* C4: a reload handled while no group is held replaces the snapshot and
\* starts nothing; a group started by an activity event carries the
\* snapshot the Launcher holds then, the one loaded last.
C4_ReloadWithoutGroup ==
    [][/\ (lPc = "reload_load" /\ lPc' \in {"select", "reload_stop"}
              /\ maybe_plugin_subsys = 0) =>
            /\ lPc' = "select"
            /\ config'.gen = config.gen + 1
            /\ groups' = groups
            /\ maybe_plugin_subsys' = 0
            /\ tray_running' = tray_running
       /\ (received' # received /\ Len(groups') > Len(groups)) =>
            /\ config' = config
            /\ groups'[Len(groups')].cfg = config]_vars

\* The first group was started after a reload and carries its snapshot.
C4_Witness ==
    /\ LastGroup = 1
    /\ groups[1].cfg.gen = 1
    /\ config.gen = 1

\* C5: with gating disabled the monitor never samples, emits at most the one
\* Running event and has emitted it once it is parked, and the Launcher
\* never enters the stop of the activity arm.
C5_DisabledGating ==
    disabled =>
        /\ sample = <<>>
        /\ emitted \in {<<>>, <<TRUE>>}
        /\ actPc \in {"parked", "done"} => emitted = <<TRUE>>
        /\ \A i \in DOMAIN received : received[i]
        /\ lPc # "act_stop"

\* Gating is disabled, the group runs and has been through a reload.
C5_Witness ==
    /\ disabled
    /\ actPc = "parked"
    /\ LastGroup = 2
    /\ groups[2].st["PluginPiShock"] = "running"

\* C6 as stated: while the stop of the activity arm is waiting for a member
\* of the group, the indicator has not been set to "stopped" yet.
C6_StoppedBeforeIndicator ==
    (lPc = "act_stop" /\ Live(maybe_plugin_subsys)) => tray_running

\* C6 amended: the indicator is set to "stopped" by the step that takes the
\* Stopped event and enters perform_partial_shutdown, before the group is
\* cancelled; the handle is cleared only when every member has exited.
C6_IndicatorThenStop ==
    [][/\ (tray_running /\ ~tray_running') =>
            /\ lPc = "select" /\ lPc' = "act_stop"
            /\ received' = Append(received, FALSE)
            /\ ~groups[maybe_plugin_subsys].cancelled
            /\ groups'[maybe_plugin_subsys].cancelled
       /\ (lPc = "act_stop" /\ lPc' = "select") =>
            /\ AllExited(maybe_plugin_subsys)
            /\ ~tray_running
            /\ maybe_plugin_subsys' = 0]_vars

\* The indicator shows "stopped" while a member of the group still runs.
C6_Witness ==
    /\ lPc = "act_stop"
    /\ ~tray_running
    /\ groups[maybe_plugin_subsys].st["PluginWatch"] = "running"

\* C7: once a plugin of a group that is not being stopped has failed, the
\* shutdown is requested (which cancels its siblings and every top-level
\* task), the process result is never success, and no group is started
\* after the failed one.
C7_PluginFailureIsFatal ==
    \A g \in DOMAIN groups :
        (AnyFailed(g) /\ ~groups[g].cancelled) =>
            /\ shutdown
            /\ rootResult # "ok"
            /\ g = LastGroup
            /\ lPc \in {"select", "reload_load", "cancelled"}

\* PiShock failed in a running group, its sibling and every top-level task
\* exited on the shutdown, and the process result is a failure.
C7_Witness ==
    /\ LastGroup = 2
    /\ groups[2].st["PluginPiShock"] = "err"
    /\ groups[2].st["PluginWatch"] = "ok"
    /\ ~groups[2].cancelled
    /\ \A t \in TopTasks : task[t] = "ok"
    /\ rootResult = "failed"

\* C8: PiShock's receiver is subscribed no earlier than its group was
\* started, so it observes no message published before that, in particular
\* none published between the stop and the restart of a reload; it observes
\* messages in order, each at most once, and as long as it has not lagged
\* it has observed every message between its subscription and its cursor.
C8_FreshSubscription ==
    \A g \in DOMAIN groups :
        groups[g].st["PluginPiShock"] # "none" =>
            /\ groups[g].sub >= groups[g].born
            /\ g > 1 => groups[g].born >= groups[g - 1].stoppedAt
            /\ \A i \in DOMAIN groups[g].obs :
                  /\ groups[g].obs[i] > groups[g].born
                  /\ groups[g].obs[i] <= published
                  /\ i > 1 => groups[g].obs[i - 1] < groups[g].obs[i]
            /\ ~groups[g].lagged =>
                  groups[g].obs = [i \in 1..(groups[g].next - groups[g].sub) |->
                                     groups[g].sub + i]

\* A reload replaced the group; message 1 was published between the stop
\* and the restart, message 2 later: the new PiShock observed only 2.
C8_Witness ==
    /\ received = <<TRUE>>
    /\ LastGroup = 2
    /\ groups[1].stoppedAt = 0
    /\ groups[2].born = 1
    /\ groups[1].obs = <<>>
    /\ groups[2].obs = <<2>>

\* C9: once a top-level task has failed the shutdown is requested and the
\* process result is never success; a finished process in which no task of
\* the tree failed or was aborted has the result success.
C9_TopLevelFailure ==
    /\ (\E t \in TopTasks : task[t] = "err") => (shutdown /\ rootResult # "ok")
    /\ (/\ rootResult # "pending"
        /\ \A t \in TopTasks : task[t] = "ok"
        /\ \A g \in DOMAIN groups : \A m \in Members : groups[g].st[m] = "ok")
          => rootResult = "ok"
    /\ rootResult = "ok" => (shutdown /\ ~TreeFailed)

\* OscReceiver failed while a group ran; everything else exited cleanly and
\* the process result is a failure.
C9_Witness ==
    /\ task["OscReceiver"] = "err"
    /\ \A t \in TopTasks \ {"OscReceiver"} : task[t] = "ok"
    /\ LastGroup = 1
    /\ AllExited(1)
    /\ rootResult = "failed"

\* C10: when the Launcher is back at its select with both channels empty
\* after a select at which both sources were ready, whichever arm that
\* select took: the snapshot is the one loaded last, a group is held if and
\* only if the last activity event was Running, and a held group was
\* started with that snapshot.
C10_BothOrdersAgree ==
    (raced # "none" /\ lPc = "select" /\ rx = <<>> /\ reload_rx = 0) =>
        /\ received # <<>>
        /\ config.gen >= 1
        /\ (maybe_plugin_subsys # 0) <=> received[Len(received)]
        /\ maybe_plugin_subsys # 0 =>
              /\ maybe_plugin_subsys = LastGroup
              /\ groups[maybe_plugin_subsys].cfg = config

\* The activity arm went first: the group it started was replaced by the
\* reload, and the Launcher is idle with the reloaded group.
C10_Witness ==
    /\ raced = "activity_first"
    /\ lPc = "select" /\ rx = <<>> /\ reload_rx = 0
    /\ received = <<TRUE>>
    /\ LastGroup = 2
    /\ maybe_plugin_subsys = 2
    /\ groups[2].cfg.gen = 1

\* C11 as stated: in every reachable state the indicator shows "running" if
\* and only if a plugin group is live.
C11_IndicatorIffLive ==
    tray_running <=> (\E g \in DOMAIN groups : Live(g))

\* C11 amended: the indicator changes only in the step of the activity arm
\* that takes the start or the stop decision, and that step sets it; so at
\* the select it shows "running" if and only if a group handle is held.
C11_IndicatorFollowsDecision ==
    /\ [](lPc = "select" => (tray_running <=> maybe_plugin_subsys # 0))
    /\ [][/\ (tray_running' # tray_running) =>
               /\ lPc = "select"
               /\ received' = Append(received, tray_running')
               /\ tray_running' <=> Len(groups') = Len(groups) + 1
               /\ tray_running' <=> lPc' = "select"
          /\ (received' # received /\ Len(groups') = Len(groups) + 1) =>
               tray_running'
          /\ (lPc = "select" /\ lPc' = "act_stop") => ~tray_running']_vars

\* A reload is replacing the group: every member of the old group has
\* exited, no group is live, and the indicator still shows "running".
C11_Witness ==
    /\ lPc = "reload_stop"
    /\ ~shutdown
    /\ tray_running
    /\ AllExited(maybe_plugin_subsys)
    /\ \A g \in DOMAIN groups : ~Live(g)

\* C12: when a plugin has failed in a group that was not being stopped and
\* the process has finished, the indicator has been set to "stopped".
C12_FailureStopsIndicator ==
    (/\ rootResult # "pending"
     /\ \E g \in DOMAIN groups : AnyFailed(g) /\ ~groups[g].cancelled)
        => ~tray_running

\* C13: the events received and the events in the channel are, in order, the
\* events emitted (with the one a pending send holds, while no shutdown is
\* requested): none lost, duplicated or reordered.  The channel never holds
\* more than two events, a receive takes the oldest one, and a send that
\* finds the channel full waits with its event, changing nothing, until the
\* Launcher has taken one.
C13_NoLossNoDuplication ==
    /\ [](Len(rx) <= ActivityCapacity)
    /\ [](~shutdown => emitted = received \o rx \o Pending)
    /\ [](LET d == received \o rx
          IN  /\ Len(d) \in {Len(emitted) - 1, Len(emitted)}
              /\ d = SubSeq(emitted, 1, Len(d)))
    /\ [][/\ (received' # received) =>
               /\ rx # <<>>
               /\ received' = Append(received, Head(rx))
               /\ rx' = Tail(rx)
          /\ (emitted' # emitted) =>
               LET e == emitted'[Len(emitted')]
               IN  /\ emitted' = Append(emitted, e)
                   /\ IF Len(rx) = ActivityCapacity
                        THEN rx' = rx /\ actPc' = "send" /\ vrchat_running' = e
                        ELSE rx' = Append(rx, e) /\ actPc' # "send"
          /\ (actPc = "send" /\ actPc' \notin {"send", "done"}) =>
               /\ Len(rx) < ActivityCapacity
               /\ rx' = Append(rx, vrchat_running)
               /\ emitted' = emitted]_vars

\* The Launcher is stopping the first group; two later events fill the
\* channel and the monitor waits in send with a fifth.
C13_Witness ==
    /\ lPc = "act_stop"
    /\ received = <<TRUE, FALSE>>
    /\ rx = <<TRUE, FALSE>>
    /\ actPc = "send"
    /\ emitted = <<TRUE, FALSE, TRUE, FALSE, TRUE>>
    /\ ~shutdown

\* C14: once the shutdown is requested (by a signal or by a failing
\* top-level task) the Launcher and the polling monitor only take their
\* cancelled exit, no event is handled and no group is started, and the root
\* eventually finishes: with
\* "ok" or "failed" only when every task of the tree has exited, with
\* "timeout" only when a task that had not exited was aborted.
C14_ShutdownFinishes ==
    /\ shutdown ~> rootResult # "pending"
    /\ [](rootResult # "pending" => shutdown)
    /\ [](rootResult \in {"ok", "failed"} => TreeExited)
    /\ [](rootResult = "timeout" =>
            /\ \/ \E t \in TopTasks : task[t] = "aborted"
               \/ \E g \in DOMAIN groups, m \in Members : groups[g].st[m] = "aborted"
            /\ \A t \in TopTasks : task[t] # "running"
            /\ \A g \in DOMAIN groups : ~Live(g))
    /\ [][shutdown =>
            /\ shutdown'
            /\ Len(groups') = Len(groups)
            /\ lPc' \in {lPc, "cancelled"}
            /\ received' = received
            /\ ~disabled => actPc' \in {actPc, "done"}]_vars

\* After a signal the Launcher and the transport tasks exited in time, the
\* monitor and a plugin did not: the root finished with the timeout error.
C14_Witness ==
    /\ rootResult = "timeout"
    /\ \A t \in TopTasks : task[t] # "err"
    /\ task["Launcher"] = "ok"
    /\ task["VrChatActivity"] = "aborted"
    /\ LastGroup = 1
    /\ groups[1].st["PluginWatch"] = "aborted"
    /\ groups[1].st["PluginPiShock"] = "ok"

C18_FailedReload ==
    /\ [][/\ (lPc = "select" /\ lPc' = "reload_load") =>
               UNCHANGED <<config, groups, maybe_plugin_subsys, tray_running>>
          /\ (lPc = "reload_load" /\ lPc' \in {"select", "reload_stop"}) =>
               /\ config'.gen = config.gen + 1
               /\ groups' # groups => lPc' = "reload_stop"
          /\ (lPc = "reload_stop" /\ Len(groups') > Len(groups)) =>
               /\ config' = config
               /\ groups'[Len(groups')].cfg = config
          /\ (lPc = "reload_load" /\ lPc' = "failed") =>
               /\ UNCHANGED <<config, groups, maybe_plugin_subsys, tray_running>>
               /\ task'["Launcher"] = "err"
               /\ shutdown']_vars
    /\ [](task["Launcher"] = "err" => shutdown /\ rootResult \in {"pending", "failed", "timeout"})

\* The re-read failed while the first group was held: the group was never
\* stopped by the Launcher, the snapshot is still the one main loaded, and
\* the process finished with a failure once the shutdown ended the group.
C18_Witness ==
    /\ lPc = "failed"
    /\ received = <<TRUE>>
    /\ LastGroup = 1
    /\ maybe_plugin_subsys = 1
    /\ ~groups[1].cancelled
    /\ AllExited(1) /\ ~AnyFailed(1)
    /\ config.gen = 0
    /\ tray_running
    /\ rootResult = "failed"

C20_HandleFollowsLastEvent ==
    /\ [](lPc = "select" =>
            (maybe_plugin_subsys # 0
                <=> (received # <<>> /\ received[Len(received)])))
    /\ [](\A i \in DOMAIN received : received[i] <=> (i % 2 = 1))
    /\ [][(lPc \in {"reload_load", "reload_stop"} \/ lPc' = "reload_load") =>
            /\ (maybe_plugin_subsys' # 0) <=> (maybe_plugin_subsys # 0)
            /\ received' = received]_vars

\* Two groups were started and stopped by activity events, one of them
\* replaced by a reload in between; the Launcher is idle with no handle.
C20_Witness ==
    /\ received = <<TRUE, FALSE, TRUE, FALSE>>
    /\ lPc = "select"
    /\ ~shutdown
    /\ maybe_plugin_subsys = 0
    /\ LastGroup = 3
    /\ config.gen = 1

====
